---- MODULE Spec2Model ----
(***************************************************************************)
(* State-machine model of live_daily_attendance.py: the live poller that   *)
(* folds the terminal's attendance log into the sqlite state store         *)
(* (tables meta, processed, present) and the per-day attendance CSV.       *)
(*                                                                         *)
(* Modelling conventions                                                   *)
(*  - Time is counted in model ticks; a calendar day has TicksPerDay       *)
(*    ticks.  A device epoch is a tick number, a day string                *)
(*    ('YYYY-MM-DD') is the day number, and a local time string            *)
(*    ('YYYY-MM-DD HH:MM:SS') is the pair <<day, tick of day>>.            *)
(*  - The terminal's log is a sequence of records with .user_id and        *)
(*    .timestamp, the timestamp being the number poll_once turns into the  *)
(*    epoch with int(); get_attendance() returns the whole log, in the     *)
(*    terminal's order, on every poll.  The terminal stamps a record with  *)
(*    its own clock, which is never ahead of the host clock but may have   *)
(*    been set back.                                                       *)
(*  - The files (users.csv, attendance_<day>.csv) and the terminal are     *)
(*    changed by the environment only while the poller sleeps or is        *)
(*    stopped; the process itself may stop at any step.                    *)
(***************************************************************************)
EXTENDS Integers, Sequences, FiniteSets, TLC

\* ---------------------------------------------------------------- bounds
NumDays == 2
TicksPerDay == 2
MaxPerson == 2
MaxLog == 2

\* ------------------------------------------------------- program constants
ROLLOVER_HOUR == 0

\* ------------------------------------------------------------- universes
Days == 0..(NumDays - 1)
Epochs == 0..(NumDays * TicksPerDay - 1)
PersonIds == 1..MaxPerson
NameOf(uid) == IF uid = 1 THEN "Ann" ELSE "Bob"
NoDay == -1
EmptyStr == <<>>
Rosters == {[uid \in 1..n |-> NameOf(uid)] : n \in 1..MaxPerson}
Records == [user_id : PersonIds, timestamp : Epochs]

VARIABLES
    now,            \* host wall clock, in ticks
    rosterFile,     \* users.csv: id -> name
    devlog,         \* the terminal's attendance log
    ledger,         \* attendance_<day>.csv per day: [exists, rows]
    meta,           \* sqlite table meta: rows [k, v]
    processed,      \* sqlite table processed: set of device_epoch
    present,        \* sqlite table present: rows [day, user_id, first_checkin_local]
    pc,             \* position of the process
    users,          \* main_loop's users dict
    daystr,         \* main_loop's daystr
    csvfile,        \* main_loop's csvfile (the day its name encodes)
    recs,           \* poll_once's sorted recs
    idx,            \* position of poll_once's for loop in recs
    marked,         \* poll_once's marked (result of update_csv_mark_present)
    applyCount,     \* history: how often a record with this epoch passed the processed check
    done,           \* history: records whose presence evaluation completed, [rec, late]
    createdThisPoll,\* history: (day, user) markers created since the last fetch
    snap,           \* history: store and ledgers at the last stop, while only replays followed
    last,           \* history: the last step of the process, [op, rec]
    crash           \* history: the record whose apply step a stop cut short, [rec, repolled]

store == <<meta, processed, present>>
volatile == <<users, daystr, csvfile, recs, idx, marked>>
env == <<now, rosterFile, devlog>>
hist == <<applyCount, done, createdThisPoll, snap, last>>
hist2 == <<crash>>
vars == <<now, rosterFile, devlog, ledger, meta, processed, present, pc, users,
          daystr, csvfile, recs, idx, marked, applyCount, done, createdThisPoll,
          snap, last, crash>>

\* ------------------------------------------------------------ time helpers
Date(t) == t \div TicksPerDay
Hour(t) == t % TicksPerDay

\* day_str_for_dt(datetime.fromtimestamp(epoch))
day_str_for_dt(epoch) == Date(epoch)

\* device_epoch_to_local_str
device_epoch_to_local_str(epoch) == <<Date(epoch), Hour(epoch)>>

\* ------------------------------------------------------------ state store
\* SELECT v FROM meta WHERE k=?: the value, or NoDay for None
get_meta(tbl, k) ==
    IF \E r \in tbl : r.k = k THEN (CHOOSE r \in tbl : r.k = k).v ELSE NoDay

\* INSERT OR REPLACE on PRIMARY KEY k
set_meta(tbl, k, v) == {r \in tbl : r.k /= k} \cup {[k |-> k, v |-> v]}

\* faulty variant: the processed table is never consulted
is_epoch_processed_never(tbl, epoch) == FALSE

is_epoch_processed(tbl, epoch) == epoch \in tbl

mark_epoch_processed(tbl, epoch) == tbl \cup {epoch}

\* faulty variant: the existing marker is never found
is_user_marked_today_none(tbl, user_id, day) == EmptyStr

\* SELECT first_checkin_local ... LIMIT 1: the stored string, or EmptyStr for None
is_user_marked_today(tbl, user_id, day) ==
    IF \E r \in tbl : r.day = day /\ r.user_id = user_id
    THEN (CHOOSE r \in tbl : r.day = day /\ r.user_id = user_id).first_checkin_local
    ELSE EmptyStr

\* INSERT OR REPLACE on PRIMARY KEY(day, user_id)
mark_user_present(tbl, user_id, day, first_checkin_local) ==
    {r \in tbl : ~(r.day = day /\ r.user_id = user_id)}
        \cup {[day |-> day, user_id |-> user_id,
               first_checkin_local |-> first_checkin_local]}

\* ----------------------------------------------------------------- roster
load_users(file) == [uid \in DOMAIN file |-> [id |-> uid, name |-> file[uid]]]

NoUsers == [uid \in {} |-> [id |-> uid, name |-> "Ann"]]

\* ----------------------------------------------------------------- ledger
RECURSIVE SortedIds(_)
SortedIds(S) ==
    IF S = {} THEN <<>>
    ELSE LET m == CHOOSE x \in S : \A y \in S : x <= y
         IN <<m>> \o SortedIds(S \ {m})

NoFile == [exists |-> FALSE, rows |-> <<>>]

\* faulty variant: the rows are written in descending id order
make_daily_csv_descending(us, day) ==
    LET ids == SortedIds(DOMAIN us)
    IN [exists |-> TRUE,
        rows |-> [i \in 1..Len(ids) |->
                    [id |-> ids[Len(ids) + 1 - i], name |-> us[ids[Len(ids) + 1 - i]].name,
                     status |-> "Absent", first_checkin_local |-> EmptyStr]]]

\* the file make_daily_csv writes
make_daily_csv(us, day) ==
    LET ids == SortedIds(DOMAIN us)
    IN [exists |-> TRUE,
        rows |-> [i \in 1..Len(ids) |->
                    [id |-> ids[i], name |-> us[ids[i]].name,
                     status |-> "Absent", first_checkin_local |-> EmptyStr]]]

\* update_csv_mark_present: tmp_rows after the read loop
TmpRows(rows, uid, checkin_str) ==
    [i \in 1..Len(rows) |->
        IF rows[i].id = uid /\ rows[i].status /= "Present"
        THEN [rows[i] EXCEPT !.status = "Present",
                             !.first_checkin_local = checkin_str]
        ELSE rows[i]]

\* faulty variant: the status of the row is not looked at
UpdatedAnyRow(rows, uid) == \E i \in 1..Len(rows) : rows[i].id = uid

\* update_csv_mark_present: the flag it returns
Updated(rows, uid) ==
    \E i \in 1..Len(rows) : rows[i].id = uid /\ rows[i].status /= "Present"

\* update_csv_mark_present: the file content afterwards
update_csv_mark_present(rows, uid, checkin_str) ==
    IF Updated(rows, uid) THEN TmpRows(rows, uid, checkin_str) ELSE rows

\* ------------------------------------------------------------------- sort
InsertRec(r, s) ==
    LET k == Cardinality({i \in 1..Len(s) : s[i].timestamp <= r.timestamp})
    IN SubSeq(s, 1, k) \o <<r>> \o SubSeq(s, k + 1, Len(s))

\* faulty variant: the batch is applied in the order the terminal returned it
UnsortedRecs(s) == s

\* sorted(recs, key=lambda r: r.timestamp), stable
RECURSIVE SortedRecs(_)
SortedRecs(s) ==
    IF s = <<>> THEN <<>>
    ELSE InsertRec(s[Len(s)], SortedRecs(SubSeq(s, 1, Len(s) - 1)))

\* ------------------------------------------------------------- day check
ActiveDay(t) == IF Hour(t) < ROLLOVER_HOUR THEN Date(t) - 1 ELSE Date(t)

\* faulty variant: the ledger is materialized on every day check
NeedsCsvAlways(m, files, day) == TRUE

NeedsCsv(m, files, day) ==
    get_meta(m, "current_csv_date") /= day \/ ~files[day].exists

\* ensure_csv_for_today: the ledgers afterwards (make_daily_csv when needed)
EnsureLedger(us, m, files, day) ==
    IF NeedsCsv(m, files, day)
    THEN [files EXCEPT ![day] = make_daily_csv(us, day)]
    ELSE files

\* faulty variant: the day pointer is never written
EnsureMetaNever(m, files, day) == m

\* ensure_csv_for_today: the meta table afterwards (make_daily_csv ends with
\* set_meta('current_csv_date', day))
EnsureMeta(m, files, day) ==
    IF NeedsCsv(m, files, day) THEN set_meta(m, "current_csv_date", day) ELSE m

\* ---------------------------------------------------------------- history
NoRec == [user_id |-> 0, timestamp |-> 0]
NoStep == [op |-> "none", rec |-> NoRec]
Step(op, r) == [op |-> op, rec |-> r]

NoCrash == [rec |-> NoRec, repolled |-> FALSE]

NoSnap == [valid |-> FALSE, replayed |-> FALSE, processed |-> {}, present |-> {},
           ledger |-> [d \in Days |-> NoFile]]

\* ------------------------------------------------------------------- Init
Init ==
    /\ now = 0
    /\ rosterFile \in Rosters
    /\ devlog = <<>>
    /\ ledger = [d \in Days |-> NoFile]
    /\ meta = {}
    /\ processed = {}
    /\ present = {}
    /\ pc = "stopped"
    /\ users = NoUsers
    /\ daystr = NoDay
    /\ csvfile = NoDay
    /\ recs = <<>>
    /\ idx = 0
    /\ marked = FALSE
    /\ applyCount = [e \in Epochs |-> 0]
    /\ done = {}
    /\ createdThisPoll = {}
    /\ snap = NoSnap
    /\ last = NoStep
    /\ crash = NoCrash

\* ---------------------------------------------------------------- actions
MaxNow == NumDays * TicksPerDay - 1

\* faulty variant: the roster is not consulted
InRosterAnyone(uid, us) == TRUE

InRoster(uid, us) == uid \in DOMAIN us

Idle == pc \in {"sleep", "stopped"}

\* the for loop of poll_once moves on from position i; after the last record
\* poll_once returns (finally: disconnect)
Advance(i) ==
    IF i + 1 > Len(recs)
    THEN /\ pc' = "sleep"
         /\ recs' = <<>>
         /\ idx' = 0
         /\ createdThisPoll' = {}
    ELSE /\ pc' = "event"
         /\ recs' = recs
         /\ idx' = i + 1
         /\ UNCHANGED createdThisPoll

\* main_loop up to the while loop: init_db, load_users, ensure_csv_for_today
Start ==
    /\ pc = "stopped"
    /\ LET us == load_users(rosterFile)
           day == ActiveDay(now)
       IN /\ users' = us
          /\ ledger' = EnsureLedger(us, meta, ledger, day)
          /\ meta' = EnsureMeta(meta, ledger, day)
          /\ csvfile' = day
          /\ daystr' = day
    /\ pc' = "loop"
    /\ last' = Step("start", NoRec)
    /\ UNCHANGED <<env, processed, present, recs, idx, marked, applyCount, done,
                   createdThisPoll, snap,
                   crash>>

\* one pass of the while loop up to poll_once: ensure_csv_for_today with the
\* users in memory, then the reload of users.csv when the day changed
DayCheck ==
    /\ pc = "loop"
    /\ LET day == ActiveDay(now)
       IN /\ ledger' = EnsureLedger(users, meta, ledger, day)
          /\ meta' = EnsureMeta(meta, ledger, day)
          /\ csvfile' = day
          /\ daystr' = day
          /\ users' = IF day /= daystr THEN load_users(rosterFile) ELSE users
    /\ pc' = "poll"
    /\ last' = Step("daycheck", NoRec)
    /\ UNCHANGED <<env, processed, present, recs, idx, marked, applyCount, done,
                   createdThisPoll, snap,
                   crash>>

\* poll_once: connect, get_attendance, sorted
PollFetch ==
    /\ pc = "poll"
    /\ LET rs == SortedRecs(devlog)
       IN IF rs = <<>>
          THEN /\ pc' = "sleep"
               /\ recs' = <<>>
               /\ idx' = 0
          ELSE /\ pc' = "event"
               /\ recs' = rs
               /\ idx' = 1
    /\ createdThisPoll' = {}
    /\ marked' = FALSE
    /\ last' = Step("fetch", NoRec)
    /\ UNCHANGED <<env, ledger, store, users, daystr, csvfile, applyCount, done, snap,
                   hist2>>

\* faulty variant: the adapter fault is not caught and ends the process
PollErrorDies ==
    /\ pc = "poll"
    /\ pc' = "stopped"
    /\ last' = Step("pollerror", NoRec)
    /\ UNCHANGED <<env, ledger, store, volatile, applyCount, done, createdThisPoll, snap,
                   hist2>>

\* poll_once: connect() or get_attendance() raises; except prints, finally disconnects
PollError ==
    /\ pc = "poll"
    /\ pc' = "sleep"
    /\ last' = Step("pollerror", NoRec)
    /\ UNCHANGED <<env, ledger, store, volatile, applyCount, done, createdThisPoll, snap,
                   hist2>>

\* poll_once: is_epoch_processed(epoch) is true: continue
EventSkip ==
    /\ pc = "event"
    /\ is_epoch_processed(processed, recs[idx].timestamp)
    /\ Advance(idx)
    /\ last' = Step("skip", recs[idx])
    /\ snap' = IF snap.valid THEN [snap EXCEPT !.replayed = TRUE] ELSE snap
    /\ crash' = IF recs[idx] = crash.rec /\ recs[idx].user_id \in DOMAIN users
                THEN [crash EXCEPT !.repolled = TRUE] ELSE crash
    /\ UNCHANGED <<env, ledger, store, users, daystr, csvfile, marked, applyCount, done>>

\* poll_once: the record is new: mark_epoch_processed(epoch)
EventMark ==
    /\ pc = "event"
    /\ ~is_epoch_processed(processed, recs[idx].timestamp)
    /\ processed' = mark_epoch_processed(processed, recs[idx].timestamp)
    /\ pc' = "marked"
    /\ applyCount' = [applyCount EXCEPT ![recs[idx].timestamp] =
                        IF @ < 2 THEN @ + 1 ELSE @]
    /\ last' = Step("mark", recs[idx])
    /\ UNCHANGED <<env, ledger, meta, present, users, daystr, csvfile, recs, idx,
                   marked, done, createdThisPoll, snap,
                   hist2>>

\* poll_once: uid not in users: print and continue
EventUnknown ==
    /\ pc = "marked"
    /\ ~InRoster(recs[idx].user_id, users)
    /\ Advance(idx)
    /\ last' = Step("unknown", recs[idx])
    /\ UNCHANGED <<env, ledger, store, users, daystr, csvfile, marked, applyCount,
                   done, snap,
                   hist2>>

\* poll_once: is_user_marked_today returns a string: print and continue
EventAlready ==
    /\ pc = "marked"
    /\ InRoster(recs[idx].user_id, users)
    /\ LET uid == recs[idx].user_id
           today == day_str_for_dt(recs[idx].timestamp)
       IN /\ is_user_marked_today(present, uid, today) /= EmptyStr
          /\ done' = done \cup {[rec |-> recs[idx],
                                 late |-> <<today, uid>> \notin createdThisPoll]}
    /\ Advance(idx)
    /\ last' = Step("already", recs[idx])
    /\ UNCHANGED <<env, ledger, store, users, daystr, csvfile, marked, applyCount, snap,
                   hist2>>

\* poll_once: no marker yet: update_csv_mark_present(csvfile, uid, checkin_str)
EventCsv ==
    /\ pc = "marked"
    /\ InRoster(recs[idx].user_id, users)
    /\ LET uid == recs[idx].user_id
           epoch == recs[idx].timestamp
           today == day_str_for_dt(epoch)
           checkin_str == device_epoch_to_local_str(epoch)
       IN /\ is_user_marked_today(present, uid, today) = EmptyStr
          /\ marked' = Updated(ledger[csvfile].rows, uid)
          /\ ledger' = [ledger EXCEPT ![csvfile].rows =
                           update_csv_mark_present(@, uid, checkin_str)]
    /\ pc' = "csvdone"
    /\ last' = Step("csv", recs[idx])
    /\ UNCHANGED <<env, store, users, daystr, csvfile, recs, idx, applyCount, done,
                   createdThisPoll, snap,
                   hist2>>

\* poll_once: mark_user_present(uid, today, checkin_str), print, next record
EventStore ==
    /\ pc = "csvdone"
    /\ LET uid == recs[idx].user_id
           epoch == recs[idx].timestamp
           today == day_str_for_dt(epoch)
           checkin_str == device_epoch_to_local_str(epoch)
       IN /\ present' = mark_user_present(present, uid, today, checkin_str)
          /\ done' = done \cup {[rec |-> recs[idx], late |-> FALSE]}
          /\ IF idx + 1 > Len(recs)
             THEN /\ pc' = "sleep"
                  /\ recs' = <<>>
                  /\ idx' = 0
                  /\ createdThisPoll' = {}
             ELSE /\ pc' = "event"
                  /\ recs' = recs
                  /\ idx' = idx + 1
                  /\ createdThisPoll' = createdThisPoll \cup {<<today, uid>>}
    /\ last' = Step("store", recs[idx])
    /\ UNCHANGED <<env, ledger, meta, processed, users, daystr, csvfile, marked,
                   applyCount, snap,
                   hist2>>

\* main_loop: time.sleep(POLL_INTERVAL) returns
Sleep ==
    /\ pc = "sleep"
    /\ pc' = "loop"
    /\ last' = Step("sleep", NoRec)
    /\ crash' = NoCrash
    /\ UNCHANGED <<env, ledger, store, volatile, applyCount, done, createdThisPoll, snap>>

\* the process ends: the store and the files stay, the memory of the process
\* is gone
Halt(op) ==
    /\ pc /= "stopped"
    /\ pc' = "stopped"
    /\ users' = NoUsers
    /\ daystr' = NoDay
    /\ csvfile' = NoDay
    /\ recs' = <<>>
    /\ idx' = 0
    /\ marked' = FALSE
    /\ createdThisPoll' = {}
    /\ snap' = IF /\ \A i \in 1..Len(devlog) : devlog[i].timestamp \in processed
                  /\ ledger[ActiveDay(now)].exists
               THEN [valid |-> TRUE, replayed |-> FALSE, processed |-> processed,
                     present |-> present, ledger |-> ledger]
               ELSE NoSnap
    /\ crash' = IF \/ pc = "csvdone"
                   \/ /\ pc = "marked"
                      /\ recs[idx].user_id \in DOMAIN users
                      /\ ~\E m \in present : /\ m.user_id = recs[idx].user_id
                                              /\ m.day = Date(recs[idx].timestamp)
                THEN [rec |-> recs[idx], repolled |-> FALSE]
                ELSE crash
    /\ last' = Step(op, NoRec)
    /\ UNCHANGED <<env, store, applyCount, done>>

\* the process ends at any point (kill, power loss, KeyboardInterrupt)
Stop == Halt("stop") /\ UNCHANGED ledger

\* ----------------------------------------------------------- environment
\* the host clock advances
AdvanceClock ==
    /\ Idle
    /\ now < MaxNow
    /\ now' = now + 1
    /\ snap' = IF ActiveDay(now + 1) /= ActiveDay(now) THEN NoSnap ELSE snap
    /\ UNCHANGED <<rosterFile, devlog, ledger, store, pc, volatile, applyCount, done,
                   createdThisPoll, last,
                   hist2>>

\* somebody scans a finger: the terminal appends a record stamped by its own clock
Scan ==
    /\ Idle
    /\ Len(devlog) < MaxLog
    /\ \E r \in Records : r.timestamp <= now /\ devlog' = Append(devlog, r)
    /\ snap' = NoSnap
    /\ UNCHANGED <<now, rosterFile, ledger, store, pc, volatile, applyCount, done,
                   createdThisPoll, last,
                   hist2>>

\* users.csv is rewritten (export_users_from_k40.py or by hand)
EditRoster ==
    /\ Idle
    /\ \E f \in Rosters : f /= rosterFile /\ rosterFile' = f
    /\ UNCHANGED <<now, devlog, ledger, store, pc, volatile, hist,
                   hist2>>

\* the attendance file of the active day is removed from OUTPUT_DIR
DeleteLedger ==
    /\ Idle
    /\ ledger[ActiveDay(now)].exists
    /\ ledger' = [ledger EXCEPT ![ActiveDay(now)] = NoFile]
    /\ snap' = NoSnap
    /\ UNCHANGED <<env, store, pc, volatile, applyCount, done, createdThisPoll, last,
                   hist2>>

Next ==
    \/ Start
    \/ DayCheck
    \/ PollFetch
    \/ PollError
    \/ EventSkip
    \/ EventMark
    \/ EventUnknown
    \/ EventAlready
    \/ EventCsv
    \/ EventStore
    \/ Sleep
    \/ Stop
    \/ AdvanceClock
    \/ Scan
    \/ EditRoster
    \/ DeleteLedger

Spec == Init /\ [][Next]_vars

\* ------------------------------------------------- interrupts and store faults
\* KeyboardInterrupt: it is no Exception, so poll_once's except clause lets it
\* pass (finally disconnects) and main_loop's handler prints and ends the loop
Interrupt == Halt("interrupt") /\ UNCHANGED ledger

\* a store call of poll_once raises (sqlite3 error): is_epoch_processed or
\* mark_epoch_processed before the insert is committed, is_user_marked_today,
\* or mark_user_present; the except clause around the for loop prints
\* "Poll error", finally disconnects and poll_once returns
StoreFault ==
    /\ \/ pc = "event"
       \/ pc = "marked" /\ InRoster(recs[idx].user_id, users)
       \/ pc = "csvdone"
    /\ pc' = "sleep"
    /\ recs' = <<>>
    /\ idx' = 0
    /\ createdThisPoll' = {}
    /\ last' = Step("storefault", recs[idx])
    /\ UNCHANGED <<env, ledger, store, users, daystr, csvfile, marked, applyCount,
                   done, snap, crash>>

\* get_meta raises in ensure_csv_for_today inside the while loop: no handler
\* but the one for KeyboardInterrupt, the exception ends the process
MetaFault ==
    /\ pc = "loop"
    /\ Halt("died")
    /\ UNCHANGED ledger

\* set_meta raises in make_daily_csv: the file is already written, the
\* exception ends the process
MetaWriteFault ==
    /\ pc = "loop"
    /\ NeedsCsv(meta, ledger, ActiveDay(now))
    /\ ledger' = [ledger EXCEPT ![ActiveDay(now)] = make_daily_csv(users, ActiveDay(now))]
    /\ Halt("died")

NextFault ==
    \/ Next
    \/ Interrupt
    \/ StoreFault
    \/ MetaFault
    \/ MetaWriteFault

SpecFault == Init /\ [][NextFault]_vars

\* ---------------------------------------------------------------- helpers of the claims
CurRec == recs[idx]
Running == pc' /= "stopped"
HasMarker(tbl, uid, day) == \E m \in tbl : m.day = day /\ m.user_id = uid
MinOf(S) == CHOOSE x \in S : \A y \in S : x <= y
\* timestamps of the completed evaluations for (uid, day) in a set of done entries
DoneTimes(D, uid, day) ==
    {d.rec.timestamp : d \in {x \in D : x.rec.user_id = uid /\ Date(x.rec.timestamp) = day}}

\* ---------------------------------------------------------------------
\* C1  Idempotent event application: a record whose epoch is already in the
\* processed table is skipped, leaving present, ledger and processed as they
\* were; no epoch passes the processed check twice; and whenever a record is at
\* its presence evaluation (known person or not) or a presence write happens,
\* the record's epoch is already in the processed table.
C1IdempotentApplication ==
    [][ /\ (pc = "event" /\ CurRec.timestamp \in processed /\ Running)
            => /\ present' = present
               /\ ledger' = ledger
               /\ processed' = processed
               /\ pc' \in {"event", "sleep"}
        /\ \A e \in Epochs : applyCount'[e] <= 1
        /\ pc' \in {"marked", "csvdone"} => recs'[idx'].timestamp \in processed'
        /\ (present' /= present)
            => pc = "csvdone" /\ CurRec.timestamp \in processed
      ]_vars

\* a replayed record (the one that created a marker) has just been skipped
C1Witness ==
    /\ last.op = "skip"
    /\ \E m \in present :
          /\ m.user_id = last.rec.user_id
          /\ m.first_checkin_local = device_epoch_to_local_str(last.rec.timestamp)

\* ---------------------------------------------------------------------
\* C2 (as claimed)  For every marker (D, P) the stored first_checkin_local is
\* the time of the chronologically earliest record for (P, D) among all records
\* whose evaluation the engine completed while P was in the roster.
C2FirstSeenEarliestProcessed ==
    \A m \in present :
        LET S == DoneTimes(done, m.user_id, m.day)
        IN S /= {} => m.first_checkin_local = device_epoch_to_local_str(MinOf(S))

\* C2 (amended)  For every marker (D, P) the stored first_checkin_local is the
\* time of the chronologically earliest record for (P, D) among the records
\* evaluated up to the end of the poll that created the marker; records for
\* (P, D) evaluated in later polls do not change it.
C2FirstSeenInCreatingPoll ==
    \A m \in present :
        LET S == DoneTimes({d \in done : ~d.late}, m.user_id, m.day)
        IN S /= {} /\ m.first_checkin_local = device_epoch_to_local_str(MinOf(S))

\* a marker for which a later poll evaluated an earlier record of the same day
C2Witness ==
    \E m \in present : \E d \in done :
        /\ d.late
        /\ d.rec.user_id = m.user_id
        /\ Date(d.rec.timestamp) = m.day
        /\ device_epoch_to_local_str(d.rec.timestamp) /= m.first_checkin_local
        /\ \E e \in done : /\ ~e.late
                           /\ e.rec.user_id = m.user_id
                           /\ e.rec.timestamp > d.rec.timestamp
                           /\ device_epoch_to_local_str(e.rec.timestamp)
                                = m.first_checkin_local

\* ---------------------------------------------------------------------
\* C3  Ledger/store consistency at the end of every tick: for every day with a
\* ledger file and every row of it, the row is Present iff the present table
\* holds a marker for (day, row id).
C3LedgerMatchesStore ==
    pc = "sleep" =>
        \A d \in Days : ledger[d].exists =>
            \A i \in 1..Len(ledger[d].rows) :
                (ledger[d].rows[i].status = "Present")
                    <=> HasMarker(present, ledger[d].rows[i].id, d)

\* ---------------------------------------------------------------------
\* C4  Day isolation: applying a record of person P stamped on day D1 changes
\* neither P's row in the ledger of any other day D2 nor the markers of
\* (D2, P).
C4DayIsolation ==
    [][ (pc \in {"marked", "csvdone"} /\ Running) =>
            \A d2 \in Days \ {Date(CurRec.timestamp)} :
                /\ ledger'[d2].exists = ledger[d2].exists
                /\ Len(ledger'[d2].rows) = Len(ledger[d2].rows)
                /\ \A i \in 1..Len(ledger[d2].rows) :
                      ledger[d2].rows[i].id = CurRec.user_id
                          => ledger'[d2].rows[i] = ledger[d2].rows[i]
                /\ {m \in present' : m.day = d2 /\ m.user_id = CurRec.user_id}
                     = {m \in present : m.day = d2 /\ m.user_id = CurRec.user_id}
      ]_vars

\* ---------------------------------------------------------------------
\* C5  Unknown-person safety: a new record whose user is not in the roster gets
\* its epoch inserted into processed, creates no marker, changes no ledger, and
\* the loop moves on to the next record of the batch (or ends the poll after
\* the last one).
C5UnknownPersonSafe ==
    [][ /\ (pc = "event" /\ CurRec.timestamp \notin processed
                /\ CurRec.user_id \notin DOMAIN users /\ Running)
            => /\ processed' = processed \cup {CurRec.timestamp}
               /\ present' = present
               /\ ledger' = ledger
               /\ pc' = "marked"
        /\ (pc = "marked" /\ CurRec.user_id \notin DOMAIN users /\ Running)
            => /\ CurRec.timestamp \in processed'
               /\ present' = present
               /\ ledger' = ledger
               /\ IF idx < Len(recs)
                  THEN pc' = "event" /\ idx' = idx + 1 /\ recs' = recs
                  ELSE pc' = "sleep"
        /\ pc' = "csvdone" => recs'[idx'].user_id \in DOMAIN users'
      ]_vars

\* an unknown person's record was just passed over and the batch goes on
C5Witness ==
    /\ last.op = "unknown"
    /\ pc = "event"
    /\ last.rec.user_id \notin DOMAIN users
    /\ last.rec.timestamp \in processed
    /\ ~\E m \in present : m.user_id = last.rec.user_id

\* ---------------------------------------------------------------------
\* C6  Restart safety: after a stop at which every record of the terminal's
\* log was processed and the active day's ledger existed, as long as the day,
\* the log and the ledger file stay as they were, a restart and its re-polls
\* never get a record past the processed check and leave processed, present
\* and every ledger identical to their contents at the stop.
C6RestartSafe ==
    snap.valid =>
        /\ processed = snap.processed
        /\ present = snap.present
        /\ ledger = snap.ledger
        /\ pc \notin {"marked", "csvdone"}

\* after a restart a re-poll has skipped a record and a presence is on file
C6Witness ==
    /\ snap.valid
    /\ snap.replayed
    /\ pc = "sleep"
    /\ present /= {}
    /\ \E d \in Days : \E i \in 1..Len(ledger[d].rows) :
          ledger[d].rows[i].status = "Present"

\* ---------------------------------------------------------------------
\* C7  Rollover correctness: the tick that observes a new active day
\* materializes that day's ledger with every roster person Absent, sets
\* current_csv_date to it and leaves the other ledgers alone; afterwards a new
\* record of a roster person stamped on the new active day (the previous day
\* having its ledger) leaves that person's row Present with the record's time,
\* and the other days' ledgers unchanged.
C7RolloverCorrect ==
    [][ /\ (pc = "loop" /\ pc' = "poll" /\ ActiveDay(now) /= daystr)
            => /\ ledger'[ActiveDay(now)] = make_daily_csv(users, ActiveDay(now))
               /\ get_meta(meta', "current_csv_date") = ActiveDay(now)
               /\ \A d \in Days \ {ActiveDay(now)} : ledger'[d] = ledger[d]
        /\ (/\ pc = "csvdone" /\ Running
            /\ Date(CurRec.timestamp) = csvfile
            /\ csvfile - 1 \in Days /\ ledger[csvfile - 1].exists
            /\ \E i \in 1..Len(ledger[csvfile].rows) :
                  ledger[csvfile].rows[i].id = CurRec.user_id)
            => /\ \E i \in 1..Len(ledger'[csvfile].rows) :
                    /\ ledger'[csvfile].rows[i].id = CurRec.user_id
                    /\ ledger'[csvfile].rows[i].status = "Present"
                    /\ ledger'[csvfile].rows[i].first_checkin_local
                         = device_epoch_to_local_str(CurRec.timestamp)
               /\ HasMarker(present', CurRec.user_id, csvfile)
               /\ ledger'[csvfile - 1] = ledger[csvfile - 1]
      ]_vars

\* ---------------------------------------------------------------------
\* C8  Duplicate scan: the present table never holds two rows for one
\* (day, person), a row once written is never changed or removed, and a new
\* record for a (day, person) that already has a marker changes only the
\* processed table: present, meta and every ledger stay as they were.
C8DuplicateScanNoOp ==
    [][ /\ \A m1, m2 \in present' :
              (m1.day = m2.day /\ m1.user_id = m2.user_id) => m1 = m2
        /\ present \subseteq present'
        /\ (/\ pc = "event" /\ Running
            /\ CurRec.timestamp \notin processed
            /\ HasMarker(present, CurRec.user_id, Date(CurRec.timestamp)))
            => /\ processed' = processed \cup {CurRec.timestamp}
               /\ present' = present /\ ledger' = ledger /\ meta' = meta
        /\ (/\ pc = "marked" /\ Running
            /\ CurRec.user_id \in DOMAIN users
            /\ HasMarker(present, CurRec.user_id, Date(CurRec.timestamp)))
            => /\ processed' = processed
               /\ present' = present /\ ledger' = ledger /\ meta' = meta
               /\ pc' \in {"event", "sleep"}
      ]_vars

\* a second scan of the day, at another time than the recorded one, was ignored
C8Witness ==
    /\ last.op = "already"
    /\ last.rec.timestamp \in processed
    /\ \E m \in present :
          /\ m.user_id = last.rec.user_id
          /\ m.day = Date(last.rec.timestamp)
          /\ m.first_checkin_local /= device_epoch_to_local_str(last.rec.timestamp)

\* ---------------------------------------------------------------------
\* C9  Late-event attribution: a new record of roster person P stamped on a
\* day D other than the day of the ledger handed to poll_once, with no marker
\* for (D, P), sets P's row Present in the ledger of day D when that file
\* exists and changes no other ledger, and then a marker (D, P) is written.
C9LateEventAttribution ==
    [][ /\ (/\ pc = "marked" /\ pc' = "csvdone"
            /\ Date(CurRec.timestamp) /= csvfile)
            => LET D == Date(CurRec.timestamp)
               IN /\ \A d \in Days \ {D} : ledger'[d] = ledger[d]
                  /\ ledger[D].exists =>
                        \A i \in 1..Len(ledger[D].rows) :
                            (ledger[D].rows[i].id = CurRec.user_id)
                                => ledger'[D].rows[i].status = "Present"
        /\ (/\ pc = "csvdone" /\ Running
            /\ Date(CurRec.timestamp) /= csvfile)
            => HasMarker(present', CurRec.user_id, Date(CurRec.timestamp))
      ]_vars

\* ---------------------------------------------------------------------
\* C10  update_csv_mark_present(file, uid, t) returns true exactly when the
\* file has a row for uid that is not Present; then exactly those rows become
\* Present with first_checkin_local = t and every other row is unchanged;
\* otherwise it returns false and the file is unchanged.
C10MarkPresentContract ==
    [][ (pc = "marked" /\ pc' = "csvdone") =>
            LET old == ledger[csvfile].rows
                new == ledger'[csvfile].rows
                uid == CurRec.user_id
                t == device_epoch_to_local_str(CurRec.timestamp)
                hit == {i \in 1..Len(old) : old[i].id = uid /\ old[i].status /= "Present"}
            IN /\ marked' = (hit /= {})
               /\ Len(new) = Len(old)
               /\ \A i \in 1..Len(old) :
                     IF i \in hit
                     THEN /\ new[i].id = uid
                          /\ new[i].name = old[i].name
                          /\ new[i].status = "Present"
                          /\ new[i].first_checkin_local = t
                     ELSE new[i] = old[i]
               /\ ledger'[csvfile].exists
               /\ \A d \in Days \ {csvfile} : ledger'[d] = ledger[d]
      ]_vars

\* the call returned true: the row of uid is Present with t, another row is untouched
C10Witness ==
    /\ pc = "csvdone"
    /\ marked
    /\ Len(ledger[csvfile].rows) > 1
    /\ \E i \in 1..Len(ledger[csvfile].rows) :
          /\ ledger[csvfile].rows[i].id = CurRec.user_id
          /\ ledger[csvfile].rows[i].status = "Present"
          /\ ledger[csvfile].rows[i].first_checkin_local
               = device_epoch_to_local_str(CurRec.timestamp)
    /\ \E i \in 1..Len(ledger[csvfile].rows) :
          /\ ledger[csvfile].rows[i].id /= CurRec.user_id
          /\ ledger[csvfile].rows[i].status = "Absent"

\* ---------------------------------------------------------------------
\* the event in progress is half applied: its timestamp is in processed, its
\* person is in the roster in memory and has no marker for the event's day
HalfApplied ==
    /\ pc \in {"marked", "csvdone"}
    /\ CurRec.user_id \in DOMAIN users
    /\ ~HasMarker(present, CurRec.user_id, Date(CurRec.timestamp))

\* ---------------------------------------------------------------------
\* C11  Write ordering: no reachable state has a ledger row of day D that is
\* Present with a first check-in of day D for person P while the present
\* table has no marker for (D, P).
C11StoreBeforeLedger ==
    \A d \in Days : \A i \in 1..Len(ledger[d].rows) :
        (/\ ledger[d].rows[i].status = "Present"
         /\ ledger[d].rows[i].first_checkin_local /= EmptyStr
         /\ ledger[d].rows[i].first_checkin_local[1] = d)
            => HasMarker(present, ledger[d].rows[i].id, d)

\* ---------------------------------------------------------------------
\* C12  Cancellation atomicity: a KeyboardInterrupt never ends the loop while
\* the event in progress is half applied (marked processed, presence marker
\* or ledger update of a qualifying event not yet written).
C12InterruptBetweenEvents ==
    [][ (pc /= "stopped" /\ pc' = "stopped" /\ last'.op = "interrupt")
            => ~HalfApplied ]_vars

\* ---------------------------------------------------------------------
\* C13  Per-event containment of store faults: when a store operation fails
\* while event i of the batch is applied and the batch has later events, the
\* same poll goes on with event i+1.
C13StoreFaultContained ==
    [][ (/\ pc \in {"event", "marked", "csvdone"}
         /\ last'.op = "storefault"
         /\ idx < Len(recs))
            => /\ pc' = "event"
               /\ recs' = recs
               /\ idx' = idx + 1 ]_vars

C15StoreFaultNotFatal ==
    [][ (pc /= "stopped" /\ last'.op \in {"storefault", "died"})
            => pc' /= "stopped" ]_vars

\* ---------------------------------------------------------------------
\* a step that runs ensure_csv_for_today: the one before the loop or the one
\* at the head of a loop pass
DayCheckStep == pc \in {"stopped", "loop"} /\ pc' \in {"loop", "poll"}
Pointer(m) == get_meta(m, "current_csv_date")
RowIds(rows) == [i \in 1..Len(rows) |-> rows[i].id]

\* ---------------------------------------------------------------------
\* C16 (as stated)  make_daily_csv runs exactly once per active day, at the
\* first tick that observes the day as the new active day: a day check that
\* writes the active day's ledger finds the pointer on another day.
C16MaterializedOncePerDay ==
    [][ (DayCheckStep /\ ledger'[ActiveDay(now)] /= ledger[ActiveDay(now)])
            => Pointer(meta) /= ActiveDay(now) ]_vars

\* C16 (amended)  A day check materializes the active day's ledger exactly
\* when the pointer differs from the active day or that day's file is
\* missing: the file then holds exactly one Absent row with empty first
\* check-in per person of the roster in memory, in ascending id order, the
\* pointer is that day and no other ledger changes; otherwise neither a
\* ledger nor the pointer changes.
C16Materialization ==
    [][ DayCheckStep =>
          LET day == ActiveDay(now)
              us == IF pc = "stopped" THEN users' ELSE users
              rows == ledger'[day].rows
          IN IF Pointer(meta) /= day \/ ~ledger[day].exists
             THEN /\ ledger'[day].exists
                  /\ Len(rows) = Cardinality(DOMAIN us)
                  /\ {rows[i].id : i \in 1..Len(rows)} = DOMAIN us
                  /\ \A i \in 1..Len(rows) :
                        /\ rows[i].status = "Absent"
                        /\ rows[i].first_checkin_local = EmptyStr
                        /\ rows[i].name = us[rows[i].id].name
                        /\ \A j \in 1..Len(rows) : i < j => rows[i].id < rows[j].id
                  /\ Pointer(meta') = day
                  /\ \A d \in Days \ {day} : ledger'[d] = ledger[d]
             ELSE ledger' = ledger /\ meta' = meta
      ]_vars

\* the active day's ledger was materialized again on a day that already has
\* a presence marker: two Absent rows, pointer on the day
C16Witness ==
    /\ pc \in {"loop", "poll"}
    /\ last.op \in {"start", "daycheck"}
    /\ Pointer(meta) = ActiveDay(now)
    /\ ledger[ActiveDay(now)].exists
    /\ Len(ledger[ActiveDay(now)].rows) = 2
    /\ \A i \in 1..2 : ledger[ActiveDay(now)].rows[i].status = "Absent"
    /\ \E m \in present : m.day = ActiveDay(now)

\* ---------------------------------------------------------------------
\* C17  Roster reload precedes materialization: after a day check that found
\* the pointer on another day or the file missing, the active day's ledger
\* has exactly one row for every person of the roster the poll of that tick
\* uses.
C17LedgerFromReloadedRoster ==
    [][ (/\ pc = "loop" /\ pc' = "poll"
         /\ (Pointer(meta) /= ActiveDay(now) \/ ~ledger[ActiveDay(now)].exists))
            => RowIds(ledger'[ActiveDay(now)].rows) = SortedIds(DOMAIN users') ]_vars

\* ---------------------------------------------------------------------
\* C18  Crash safety of the processed marker: when the process ended between
\* mark_epoch_processed(e) and the presence write of a qualifying event e,
\* the first poll after the restart that gets e again ends with a presence
\* marker for e's person and day.
C18PresenceSurvivesCrash ==
    (pc = "sleep" /\ crash.repolled)
        => HasMarker(present, crash.rec.user_id, Date(crash.rec.timestamp))

\* ---------------------------------------------------------------------
\* C19  Presence completeness of a batch: when a poll ends after the last
\* record of its batch, every person of the roster in memory with a record
\* of day D in the batch has a presence marker for (D, person).
C19BatchPresenceComplete ==
    [][ (/\ pc \in {"event", "marked", "csvdone"}
         /\ pc' = "sleep"
         /\ idx = Len(recs))
            => \A i \in 1..Len(recs) :
                  recs[i].user_id \in DOMAIN users
                      => HasMarker(present', recs[i].user_id, Date(recs[i].timestamp))
      ]_vars

\* ---------------------------------------------------------------------
\* C20  Day-pointer invariant: when the poll phase starts, the stored pointer
\* is the active day of the day check, the ledger of that day exists and is
\* the file handed to poll_once; the active day is the day before the
\* current date exactly when the hour is below ROLLOVER_HOUR and the current
\* date otherwise.
C20DayPointer ==
    pc = "poll" =>
        /\ Pointer(meta) = csvfile
        /\ ledger[csvfile].exists
        /\ csvfile = daystr
        /\ csvfile = (IF Hour(now) < ROLLOVER_HOUR THEN Date(now) - 1 ELSE Date(now))

\* the poll phase starts on the second day: the pointer moved with the day
C20Witness ==
    /\ pc = "poll"
    /\ Date(now) = 1
    /\ Pointer(meta) = 1
    /\ csvfile = 1
    /\ ledger[0].exists
    /\ ledger[1].exists

====
